---- MODULE Spec2Model ----
(***************************************************************************)
(* N-body engine of src/n-body.py: the module-level state arrays, the      *)
(* initialisation, the per-body force / position / velocity functions and  *)
(* the frame loop of Run.                                                  *)
(*                                                                         *)
(* Floating point is modelled by integers.  The source divides by          *)
(* 0.001*|r|^3 and multiplies the sum by 0.001 again; the model keeps that *)
(* as fixed-point arithmetic with scale FixScale = 1/0.001.  The physical  *)
(* constants are scaled down so that bodies meet the central object within *)
(* a few frames; every formula is the source's.                            *)
(***************************************************************************)
EXTENDS Integers, Sequences, FiniteSets, TLC

\* ---------------------------------------------------------------------
\* Configuration (src/n-body.py, VARIABLES section)
\*
\* N and dtCount bound the model (500 and 500 in the source).  The other
\* values are the source's constants scaled down; the source's values are
\* given on the right.  dt (0.001 in the source) is 1 here, and 0 stands
\* for a degenerate time step.
\* ---------------------------------------------------------------------
N == 3
dtCount == 4
\* Gm = 5000000
Gm == 10
\* GM = Gm * 10000
GM == Gm * 10
\* SmallDiam = 12
SmallDiam == 2
\* VelDecreaseFactor = 0.95, in hundredths
VelDecreasePct == 95
\* GenCubeLength = 500
GenCubeLength == 3
\* SpaceLength = 7 * GenCubeLength
SpaceLength == 4 * GenCubeLength
\* LargeRadius = GenCubeLength / 10
LargeRadius == 2
\* Vel0 = 5000
Vel0 == 1
\* the factor 0.001 of findCurrentAcc, as the fixed-point scale 1 / 0.001
FixScale == 1000
DtValues == {0, 1}

Bodies == 0 .. (N - 1)
LoopBodies == 0 .. (N - 2)
Frames == 0 .. (dtCount - 1)
Axes == 1 .. 3

Zero3 == <<0, 0, 0>>
ZeroArr == [b \in Bodies |-> Zero3]
ZeroFlags == [b \in Bodies |-> 0]
ZeroSeries == [u \in Frames |-> ZeroArr]
HeavyMassLoc == [k \in Axes |-> SpaceLength \div 2]

VARIABLES pc, t, i, frameCount, dt,
          Loc, VelRad, VelInt, AccRad, AccInt,
          isInContact, hasFallen, TimeSeries, LocStart

vars == <<pc, t, i, frameCount, dt, Loc, VelRad, VelInt, AccRad, AccInt,
          isInContact, hasFallen, TimeSeries, LocStart>>

\* ---------------------------------------------------------------------
\* Vector arithmetic (numpy)
\* ---------------------------------------------------------------------
Quot(a, b) == IF a >= 0 THEN a \div b ELSE -((-a) \div b)

VAdd(a, b) == [k \in Axes |-> a[k] + b[k]]
VSub(a, b) == [k \in Axes |-> a[k] - b[k]]
VScale(c, a) == [k \in Axes |-> c * a[k]]
VQuot(a, d) == [k \in Axes |-> Quot(a[k], d)]

RECURSIVE SqrtFrom(_, _)
SqrtFrom(s, r) == IF (r + 1) * (r + 1) > s THEN r ELSE SqrtFrom(s, r + 1)

Norm(v) == SqrtFrom(v[1] * v[1] + v[2] * v[2] + v[3] * v[3], 0)
Cube(x) == x * x * x
Norm3(v) == Cube(Norm(v))

\* ---------------------------------------------------------------------
\* initialiseStates
\* ---------------------------------------------------------------------
XRange == ((SpaceLength - LargeRadius - 2 * GenCubeLength) \div 4)
            .. ((SpaceLength - LargeRadius + 2 * GenCubeLength) \div 4 - 1)
YRange == ((SpaceLength - GenCubeLength) \div 2)
            .. ((SpaceLength + GenCubeLength) \div 2 - 1)

InitBodies == 0 .. (N - 2)

Shuffles(S) == {f \in [InitBodies -> S] :
                  \A a, b \in InitBodies : a # b => f[a] # f[b]}

Init ==
    /\ pc = "start"
    /\ t = 0
    /\ i = 0
    /\ frameCount = 0
    /\ dt \in DtValues
    /\ Loc = ZeroArr
    /\ VelRad = ZeroArr
    /\ VelInt = ZeroArr
    /\ AccRad = ZeroArr
    /\ AccInt = ZeroArr
    /\ isInContact = ZeroFlags
    /\ hasFallen = ZeroFlags
    /\ TimeSeries = ZeroSeries
    /\ LocStart = ZeroArr

initialiseStates ==
    /\ pc = "start"
    /\ \E x \in Shuffles(XRange), y \in Shuffles(YRange), z \in Shuffles(YRange) :
         Loc' = [b \in Bodies |->
                   IF b \in InitBodies THEN <<x[b], y[b], z[b]>> ELSE Loc[b]]
    /\ VelRad' = [b \in Bodies |->
                   IF b \in InitBodies THEN <<0, Vel0, 0>> ELSE VelRad[b]]
    /\ VelInt' = [b \in Bodies |->
                   IF b \in InitBodies THEN Zero3 ELSE VelInt[b]]
    /\ pc' = "ready"
    /\ UNCHANGED <<t, i, frameCount, dt, AccRad, AccInt, isInContact,
                   hasFallen, TimeSeries, LocStart>>

\* ---------------------------------------------------------------------
\* findCurrentAcc(b): the new values of AccRad[b], AccInt[b],
\* isInContact[b] and hasFallen[b].  PosRead is the position array the
\* function reads; the operators ending in At take it as a parameter.
\* ---------------------------------------------------------------------
PosReadFrameStart == LocStart
PosRead == Loc

ScanBodies(b) == (0 .. (N - 2)) \ {b}

RAt(b, L) == VSub(HeavyMassLoc, L[b])
Abs_R3At(b, L) == Norm3(RAt(b, L))
OutsideAt(b, L) == Abs_R3At(b, L) >= Cube(LargeRadius)
AccRadAt(b, L) ==
    LET R_Abs_R3 == VQuot(VScale(FixScale, RAt(b, L)), Abs_R3At(b, L))
    IN  VQuot(VScale(GM, R_Abs_R3), FixScale)

TouchingAt(b, j, L) == Norm3(VSub(L[j], L[b])) < Cube(SmallDiam)
ContributionAlwaysAt(b, j, L) ==
    LET r == VSub(L[j], L[b])
    IN  IF Norm3(r) = 0 THEN Zero3
        ELSE VQuot(VScale(FixScale, r), Norm3(r))
ContributionAt(b, j, L) ==
    LET r == VSub(L[j], L[b])
    IN  IF TouchingAt(b, j, L) THEN Zero3
        ELSE VQuot(VScale(FixScale, r), Norm3(r))

RECURSIVE SumContributions(_, _, _)
SumContributions(b, S, L) ==
    IF S = {} THEN Zero3
    ELSE LET j == CHOOSE x \in S : TRUE
         IN  VAdd(ContributionAt(b, j, L), SumContributions(b, S \ {j}, L))

AccIntAt(b, L) == VQuot(VScale(Gm, SumContributions(b, ScanBodies(b), L)), FixScale)
ContactAt(b, L) == IF \E j \in ScanBodies(b) : TouchingAt(b, j, L) THEN 1 ELSE 0

Outside(b) == OutsideAt(b, PosRead)
NewAccRadKept(b) == IF Outside(b) THEN AccRadAt(b, PosRead) ELSE AccRad[b]
NewAccRad(b) == IF Outside(b) THEN AccRadAt(b, PosRead) ELSE Zero3
NewAccInt(b) == IF Outside(b) THEN AccIntAt(b, PosRead) ELSE Zero3
NewIsInContactSticky(b) ==
    IF Outside(b) /\ ContactAt(b, PosRead) = 1 THEN 1 ELSE isInContact[b]
NewIsInContact(b) == IF Outside(b) THEN ContactAt(b, PosRead) ELSE 0
NewHasFallen(b) == IF Outside(b) THEN 0 ELSE 1

\* ---------------------------------------------------------------------
\* findNextLoc(b), findNextVel(b)
\* ---------------------------------------------------------------------
NextVelRad(b) == VAdd(VelRad[b], VScale(dt, AccRad[b]))
NextVelInt(b) ==
    LET v == VAdd(VelInt[b], VScale(dt, AccInt[b]))
    IN  IF isInContact[b] = 1 THEN VQuot(VScale(VelDecreasePct, v), 100) ELSE v

NextLocFromNewVel(b) ==
    VAdd(Loc[b],
         VAdd(VScale(dt, VAdd(NextVelRad(b), NextVelInt(b))),
              VQuot(VScale(dt * dt, VAdd(AccRad[b], AccInt[b])), 2)))
NextLoc(b) ==
    VAdd(Loc[b],
         VAdd(VScale(dt, VAdd(VelRad[b], VelInt[b])),
              VQuot(VScale(dt * dt, VAdd(AccRad[b], AccInt[b])), 2)))

\* ---------------------------------------------------------------------
\* Run(dtCount): the frame loop.  pc is the position in the loop:
\*   "acc"  before the test of hasFallen[i] for body i,
\*   "loc"  after findCurrentAcc(i), before findNextLoc(i),
\*   "vel"  after findNextLoc(i), before findNextVel(i),
\*   "snap" after the body loop, before the write to TimeSeries.
\* t counts the frames completed, LocStart is Loc as the frame began.
\* ---------------------------------------------------------------------
FrameIterations(fc) == fc - 1
ActiveAlways(b) == TRUE
Active(b) == hasFallen[b] = 0
MoreFramesWhileActive ==
    /\ t + 1 < FrameIterations(frameCount)
    /\ \E b \in LoopBodies : hasFallen[b] = 0
MoreFrames == t + 1 < FrameIterations(frameCount)
SnapColumnNext == t + 1
SnapColumn == t

EnterFrame ==
    IF LoopBodies = {} THEN pc' = "snap" /\ i' = 0
    ELSE pc' = "acc" /\ i' = 0

NextBody ==
    IF i + 1 \in LoopBodies THEN pc' = "acc" /\ i' = i + 1
    ELSE pc' = "snap" /\ i' = i + 1

RunCall ==
    /\ pc = "ready"
    /\ \E fc \in 0 .. dtCount :
         /\ frameCount' = fc
         /\ IF FrameIterations(fc) > 0 THEN EnterFrame
            ELSE pc' = "done" /\ i' = i
    /\ t' = 0
    /\ LocStart' = Loc
    /\ UNCHANGED <<dt, Loc, VelRad, VelInt, AccRad, AccInt, isInContact,
                   hasFallen, TimeSeries>>

ForceStep ==
    /\ pc = "acc"
    /\ Active(i)
    /\ AccRad' = [AccRad EXCEPT ![i] = NewAccRad(i)]
    /\ AccInt' = [AccInt EXCEPT ![i] = NewAccInt(i)]
    /\ isInContact' = [isInContact EXCEPT ![i] = NewIsInContact(i)]
    /\ hasFallen' = [hasFallen EXCEPT ![i] = NewHasFallen(i)]
    /\ pc' = "loc"
    /\ UNCHANGED <<t, i, frameCount, dt, Loc, VelRad, VelInt, TimeSeries, LocStart>>

SkipFallen ==
    /\ pc = "acc"
    /\ ~Active(i)
    /\ NextBody
    /\ UNCHANGED <<t, frameCount, dt, Loc, VelRad, VelInt, AccRad, AccInt,
                   isInContact, hasFallen, TimeSeries, LocStart>>

LocStep ==
    /\ pc = "loc"
    /\ Loc' = [Loc EXCEPT ![i] = NextLoc(i)]
    /\ pc' = "vel"
    /\ UNCHANGED <<t, i, frameCount, dt, VelRad, VelInt, AccRad, AccInt,
                   isInContact, hasFallen, TimeSeries, LocStart>>

VelStep ==
    /\ pc = "vel"
    /\ VelRad' = [VelRad EXCEPT ![i] = NextVelRad(i)]
    /\ VelInt' = [VelInt EXCEPT ![i] = NextVelInt(i)]
    /\ NextBody
    /\ UNCHANGED <<t, frameCount, dt, Loc, AccRad, AccInt, isInContact,
                   hasFallen, TimeSeries, LocStart>>

Snapshot ==
    /\ pc = "snap"
    /\ TimeSeries' = [TimeSeries EXCEPT ![SnapColumn] = Loc]
    /\ t' = t + 1
    /\ LocStart' = Loc
    /\ IF MoreFrames THEN EnterFrame ELSE pc' = "done" /\ i' = i
    /\ UNCHANGED <<frameCount, dt, Loc, VelRad, VelInt, AccRad, AccInt,
                   isInContact, hasFallen>>

Next ==
    \/ initialiseStates
    \/ RunCall
    \/ ForceStep
    \/ SkipFallen
    \/ LocStep
    \/ VelStep
    \/ Snapshot

Spec == Init /\ [][Next]_vars

\* ---------------------------------------------------------------------
\* Properties
\* ---------------------------------------------------------------------

\* C1: once hasFallen[b] is 1 it is 1 in every later state, although
\* findCurrentAcc(b) starts by writing 0 to it: Run calls findCurrentAcc(b)
\* only while hasFallen[b] is 0.
C1_SettledMonotonic ==
    [][\A b \in Bodies : hasFallen[b] = 1 => hasFallen'[b] = 1]_vars

\* A body that fell in an earlier frame has been passed over by the body
\* loop of the current frame (it would have moved otherwise).
C1_Witness ==
    \E b \in LoopBodies :
        /\ hasFallen[b] = 1
        /\ dt # 0
        /\ VelRad[b] # Zero3
        /\ pc \in {"acc", "snap"}
        /\ i > b
        /\ t >= 1
        /\ Loc[b] = LocStart[b]

\* The positions the force evaluation of body i has read: those of the
\* bodies before i as they are now, those of i and later bodies as the
\* frame began.
MixedPositions == [b \in Bodies |-> IF b < i THEN Loc[b] ELSE LocStart[b]]

\* C2 (as amended): the body loop updates positions in place, so the force
\* evaluation of body i reads start-of-frame positions only for the bodies
\* j >= i; for j < i it reads the positions already advanced in this frame.
C2_ForceReadsInPlace ==
    (pc = "loc" /\ hasFallen[i] = 0) =>
        /\ \A j \in Bodies : j >= i => Loc[j] = LocStart[j]
        /\ AccRad[i] = AccRadAt(i, MixedPositions)
        /\ AccInt[i] = AccIntAt(i, MixedPositions)
        /\ isInContact[i] = ContactAt(i, MixedPositions)

\* C2 (as claimed): the force evaluation of every body reads only the
\* positions of the start of the frame, so its results are those computed
\* from LocStart.
C2_StageBarrier ==
    (pc = "loc" /\ hasFallen[i] = 0) =>
        /\ \A j \in ScanBodies(i) : Loc[j] = LocStart[j]
        /\ AccInt[i] = AccIntAt(i, LocStart)
        /\ isInContact[i] = ContactAt(i, LocStart)

\* Body i was evaluated after an earlier body moved in this frame, and
\* its acceleration differs from the one the frame-start positions give.
C2_Witness ==
    /\ pc = "loc"
    /\ hasFallen[i] = 0
    /\ \E j \in ScanBodies(i) : j < i /\ Loc[j] # LocStart[j]
    /\ AccInt[i] # AccIntAt(i, LocStart)

\* C3 (as claimed): when Run(frameCount) is complete, frameCount frames
\* have been executed and every column u < frameCount of TimeSeries holds
\* a snapshot, none its initial zero fill.
C3_AllFramesWritten ==
    pc = "done" =>
        /\ t = frameCount
        /\ \A u \in Frames : u < frameCount => TimeSeries[u] # ZeroArr

\* C4: the snapshot of frame t is Loc as it stands when the body loop of
\* frame t has ended, columns of earlier frames are never written again,
\* and nothing but the snapshot writes to TimeSeries.
C4_SnapshotAppendOnly ==
    [][/\ pc = "snap" => TimeSeries'[t] = Loc
       /\ \A u \in Frames : u < t => TimeSeries'[u] = TimeSeries[u]
       /\ pc # "snap" => TimeSeries' = TimeSeries]_vars

\* A complete run of at least two frames whose columns differ.
C4_Witness ==
    /\ pc = "done"
    /\ t >= 2
    /\ TimeSeries[0] # TimeSeries[1]
    /\ TimeSeries[t - 1] = Loc
    /\ \E b \in LoopBodies : TimeSeries[0][b] # LocStart[b]

\* C5 (as claimed): every index of Bodies, N-1 included, is given a position
\* in the generation cube and the cloud velocity by initialiseStates, and
\* the body loop of a frame has walked all N indices when it ends.
C5_AllBodiesUniform ==
    /\ pc = "ready" =>
         \A b \in Bodies :
            /\ Loc[b][1] \in XRange
            /\ Loc[b][2] \in YRange
            /\ Loc[b][3] \in YRange
            /\ VelRad[b] = <<0, Vel0, 0>>
    /\ pc = "snap" => i = N

\* Some body other than b, taken from the set S, lies within the collision
\* diameter of b.
SomeWithin(b, S) == \E j \in S \ {b} : TouchingAt(b, j, Loc)

\* C6 (as amended): after the force evaluation of an active body i,
\* isInContact[i] is 0 whenever no other body j < N-1, settled or not, lies
\* within the collision diameter of i; settled bodies stay in the scan.
C6_NoContactWhenNoneScannedNear ==
    (pc = "loc" /\ hasFallen[i] = 0 /\ ~SomeWithin(i, LoopBodies))
        => isInContact[i] = 0

\* C6 (as claimed): after the force evaluation of an active body i,
\* isInContact[i] is 0 whenever no other body that is not settled lies
\* within the collision diameter of i.
C6_NoContactWhenNoActiveNear ==
    (pc = "loc" /\ hasFallen[i] = 0
       /\ ~SomeWithin(i, {j \in Bodies : hasFallen[j] = 0}))
        => isInContact[i] = 0

\* An active body was evaluated with no body near it, after a frame in
\* which it was in contact.
C6_Witness ==
    /\ pc = "loc"
    /\ hasFallen[i] = 0
    /\ t >= 1
    /\ ~SomeWithin(i, LoopBodies)
    /\ isInContact[i] = 0
    /\ \E j \in LoopBodies \ {i} : TouchingAt(i, j, TimeSeries[t - 1])

\* C7 (as amended): once findCurrentAcc has marked body b settled, its two
\* velocities are never modified again and its two accelerations stay zero;
\* its position is advanced by findNextLoc in the rest of the same frame,
\* by (VelRad + VelInt) * dt, and is not modified in any later frame.
C7_SettledFrozenAfterFrame ==
    [][\A b \in Bodies :
         /\ hasFallen'[b] = 1 => AccRad'[b] = Zero3 /\ AccInt'[b] = Zero3
         /\ hasFallen[b] = 1 =>
              /\ VelRad'[b] = VelRad[b]
              /\ VelInt'[b] = VelInt[b]
              /\ Loc'[b] # Loc[b] =>
                   /\ pc = "loc"
                   /\ i = b
                   /\ Loc[b] = LocStart[b]
                   /\ Loc'[b] = VAdd(Loc[b], VScale(dt, VAdd(VelRad[b], VelInt[b])))]_vars

\* C7 (as claimed): once body b is marked settled, its position and its two
\* velocities are never modified again and its accelerations stay zero.
C7_SettledFrozen ==
    [][\A b \in Bodies :
         hasFallen[b] = 1 =>
            /\ Loc'[b] = Loc[b]
            /\ VelRad'[b] = VelRad[b]
            /\ VelInt'[b] = VelInt[b]
            /\ AccRad'[b] = Zero3
            /\ AccInt'[b] = Zero3]_vars

\* A body that was accelerating fell, and moved in the frame it fell in.
C7_Witness ==
    \E b \in LoopBodies :
        /\ hasFallen[b] = 1
        /\ pc = "snap"
        /\ Loc[b] # LocStart[b]
        /\ AccRad[b] = Zero3
        /\ VelRad[b] # <<0, Vel0, 0>>

\* C8 (as claimed): with dt <= 0 or a frame count <= 0 no frame is ever
\* executed and nothing is written to TimeSeries.
C8_DegenerateRejected ==
    (dt <= 0 \/ frameCount <= 0) =>
        /\ pc \in {"start", "ready", "done"}
        /\ t = 0
        /\ TimeSeries = ZeroSeries

\* The frame iterations Run(frameCount) performs, as a function of its
\* argument alone.
IterationsOf(fc) == IF fc > 1 THEN fc - 1 ELSE 0

\* An upper bound of the steps Run still has to take: three per body left
\* in the body loop and one snapshot per frame left.
StepsPerFrame == 3 * (N - 1) + 1
StepsLeft ==
    LET later == (IterationsOf(frameCount) - t - 1) * StepsPerFrame
    IN  CASE pc = "start" -> dtCount * StepsPerFrame + 2
          [] pc = "ready" -> dtCount * StepsPerFrame + 1
          [] pc = "acc"   -> later + 3 * (N - 1 - i) + 1
          [] pc = "loc"   -> later + 3 * (N - 1 - i)
          [] pc = "vel"   -> later + 3 * (N - 1 - i) - 1
          [] pc = "snap"  -> later + 1
          [] OTHER        -> 0

\* C9: Run terminates and has no early exit: until it is done a step is
\* always possible, every step strictly decreases the natural number
\* StepsLeft, which depends on the frame count argument and the loop
\* position but not on the bodies, and when Run is done it has executed
\* IterationsOf(frameCount) frames, whatever the bodies' state.
C9_RunsFullFrameCount ==
    /\ [](pc # "done" => ENABLED Next)
    /\ [](StepsLeft \in Nat)
    /\ [][StepsLeft' < StepsLeft]_vars
    /\ [](pc = "done" => t = IterationsOf(frameCount))

\* The body loop of a frame ended with every body already settled as the
\* frame began: nothing moved, and the snapshot is still to be written.
C9_Witness ==
    /\ pc = "snap"
    /\ dt # 0
    /\ LoopBodies # {}
    /\ \A b \in LoopBodies : hasFallen[b] = 1 /\ VelRad[b] # Zero3
    /\ Loc = LocStart

\* C10 (as amended): in one step of an active body the force evaluation
\* comes first, then the position is advanced from the velocities of the
\* previous step (they do not yet include this step's acceleration) and
\* half the acceleration times dt squared, and only then the two velocities
\* are advanced, the internal one damped if in contact, from the same
\* acceleration values.
C10_PositionBeforeVelocity ==
    [][/\ (pc = "acc" /\ hasFallen[i] = 0) => pc' = "loc"
       /\ pc = "loc" =>
            /\ pc' = "vel"
            /\ Loc'[i] = VAdd(Loc[i],
                   VAdd(VScale(dt, VAdd(VelRad[i], VelInt[i])),
                        VQuot(VScale(dt * dt, VAdd(AccRad[i], AccInt[i])), 2)))
            /\ UNCHANGED <<VelRad, VelInt, AccRad, AccInt>>
       /\ pc = "vel" =>
            /\ VelRad'[i] = VAdd(VelRad[i], VScale(dt, AccRad[i]))
            /\ VelInt'[i] =
                 LET v == VAdd(VelInt[i], VScale(dt, AccInt[i]))
                 IN  IF isInContact[i] = 1
                     THEN VQuot(VScale(VelDecreasePct, v), 100) ELSE v
            /\ UNCHANGED <<Loc, AccRad, AccInt>>]_vars

\* C10 (as claimed): when the step of an active body is over, its position
\* has moved by the advanced (and damped) velocities times dt plus half the
\* acceleration times dt squared.
C10_PositionFromNewVelocity ==
    \A b \in LoopBodies :
        (pc \in {"acc", "snap"} /\ b < i /\ hasFallen[b] = 0) =>
            Loc[b] = VAdd(LocStart[b],
                       VAdd(VScale(dt, VAdd(VelRad[b], VelInt[b])),
                            VQuot(VScale(dt * dt, VAdd(AccRad[b], AccInt[b])), 2)))

\* The step of an active body with a non-zero acceleration is over.
C10_Witness ==
    \E b \in LoopBodies :
        /\ pc \in {"acc", "snap"}
        /\ b < i
        /\ hasFallen[b] = 0
        /\ dt # 0
        /\ AccRad[b] # Zero3
        /\ AccInt[b] # Zero3

\* The two classes of the scan of body b: the scanned bodies whose |r|^3
\* is below the collision diameter cubed, and the others.
ContactClass(b) ==
    {j \in ScanBodies(b) : Norm3(VSub(Loc[j], Loc[b])) < Cube(SmallDiam)}
GravityClass(b) ==
    {j \in ScanBodies(b) : Norm3(VSub(Loc[j], Loc[b])) >= Cube(SmallDiam)}

\* The sum of r / |r|^3 (at the fixed-point scale) over the bodies of S.
RECURSIVE GravitySum(_, _)
GravitySum(b, S) ==
    IF S = {} THEN Zero3
    ELSE LET j == CHOOSE x \in S : TRUE
             r == VSub(Loc[j], Loc[b])
         IN  VAdd(VQuot(VScale(FixScale, r), Norm3(r)), GravitySum(b, S \ {j}))

\* C11: after the force evaluation of an active body i outside the central
\* radius, isInContact[i] is set exactly when some scanned body is in the
\* contact class, and AccInt[i] is Gm times the sum of r / |r|^3 over the
\* gravity class alone: a body of the contact class adds nothing, a body
\* of the gravity class does not set the flag.
C11_ContactGravityPartition ==
    (pc = "loc" /\ hasFallen[i] = 0) =>
        /\ isInContact[i] = (IF ContactClass(i) # {} THEN 1 ELSE 0)
        /\ AccInt[i] = VQuot(VScale(Gm, GravitySum(i, GravityClass(i))), FixScale)

\* Body i was evaluated with a body in its gravity class that pulls it,
\* while an earlier body of this frame was evaluated with a body in its
\* contact class at a non-zero distance and got no acceleration from it.
C11_Witness ==
    /\ pc = "loc"
    /\ hasFallen[i] = 0
    /\ isInContact[i] = 0
    /\ AccInt[i] # Zero3
    /\ \E b \in LoopBodies :
          /\ b < i
          /\ hasFallen[b] = 0
          /\ isInContact[b] = 1
          /\ AccInt[b] = Zero3
          /\ TouchingAt(b, i, LocStart)
          /\ LocStart[i] # LocStart[b]

\* The positions the scan of body i read in the current frame, seen from
\* the state before findNextVel(i): body i has been advanced since, the
\* others have not.
ScanPositions == [Loc EXCEPT ![i] = LocStart[i]]

\* The positions the scan of body b read in the frame before the current
\* one (t >= 2): the bodies before b as that frame left them, b and the
\* later ones as the frame before it left them.
PrevScanPositions(b) ==
    [j \in Bodies |-> IF j < b THEN TimeSeries[t - 1][j] ELSE TimeSeries[t - 2][j]]

\* C12: findNextVel(i) multiplies the internal velocity by the damping
\* factor exactly when the scan of body i in this same frame found a body
\* within the collision diameter, whatever isInContact[i] was in earlier
\* frames, and it never damps the radial velocity.
C12_DampingFollowsThisFrameScan ==
    [][pc = "vel" =>
         LET found == /\ hasFallen[i] = 0
                      /\ \E j \in ScanBodies(i) : TouchingAt(i, j, ScanPositions)
             v == VAdd(VelInt[i], VScale(dt, AccInt[i]))
         IN  /\ VelInt'[i] = IF found THEN VQuot(VScale(VelDecreasePct, v), 100)
                             ELSE v
             /\ VelRad'[i] = VAdd(VelRad[i], VScale(dt, AccRad[i]))]_vars

\* The step of an active body b is over: its scan found no contact in this
\* frame although the scan of the frame before did, and its internal
\* velocity is not zero, so a damping would have changed it.
C12_Witness ==
    \E b \in LoopBodies :
        /\ pc \in {"acc", "snap"}
        /\ b < i
        /\ t >= 2
        /\ dt # 0
        /\ hasFallen[b] = 0
        /\ isInContact[b] = 0
        /\ ContactAt(b, PrevScanPositions(b)) = 1
        /\ VelInt[b] # Zero3

====
